---------------------------- MODULE Spec2Model ----------------------------
(***************************************************************************)
(* Order-enrichment scripts (andrew-ss-playground/scripts).                *)
(*                                                                         *)
(* Text is modelled as a sequence of fragments.  Where the code looks at   *)
(* single characters (digits of a phone number or of an order id, the      *)
(* "." of a file name, the trailing "." of a note) every character is a    *)
(* fragment of its own; fixed literals of f-strings that the code never    *)
(* inspects are one fragment each.  Python's None is the value None below, *)
(* a text no input and no result of the program is equal to.               *)
(***************************************************************************)
EXTENDS Integers, Sequences, FiniteSets, TLC

VARIABLES
    \* utils/parsing.py parse_phone: the argument and the returned value
    raw_phone, phone_out,
    \* services/client.py fetch_items: the API's JSON body and the result
    api_items, items_out,
    \* services/client.py fetch_internal_notes: the JSON body and the result
    api_notes, notes_out,
    \* utils/csv.py write_to_csv: parameters, locals, position, and the file
    \* system (what each open() will do, which names were opened)
    file_name, rows, attempt, w_pc, w_plan, opened, w_result,
    \* services/order_details.py get_updated_rows / build_row
    old_rows, idx, pc, order_id, pronunciation, items_text, storage_unit,
    image_file_names, new_rows, warnings, calls, emitted,
    \* utils/comments.py generate_comments: the row, the API's answer to the
    \* internal-notes request, and the returned value
    comment_data, comment_notes, comments_out,
    \* add_suffix_to_file_name of utils/csv.py, scripts/get_details.py and
    \* scripts/get_items.py: the file name (its part before the last "." and
    \* its extension), the suffix, and what each of the three returned
    sfx_path, sfx_ext, sfx_suffix, suffixed

phoneVars == <<raw_phone, phone_out>>
itemVars  == <<api_items, items_out>>
noteVars  == <<api_notes, notes_out>>
writeVars == <<file_name, rows, attempt, w_pc, w_plan, opened, w_result>>
pipeVars  == <<old_rows, idx, pc, order_id, pronunciation, items_text,
               storage_unit, image_file_names, new_rows, warnings, calls,
               emitted>>
commentVars == <<comment_data, comment_notes, comments_out>>
suffixVars == <<sfx_path, sfx_ext, sfx_suffix, suffixed>>
vars      == <<phoneVars, itemVars, noteVars, writeVars, pipeVars,
               commentVars, suffixVars>>
notPipe   == <<phoneVars, itemVars, noteVars, writeVars, commentVars,
               suffixVars>>
notWrite  == <<phoneVars, itemVars, noteVars, pipeVars, commentVars,
               suffixVars>>

---------------------------------------------------------------------------
(* Bounds of the model *)

MaxPhoneDigits == 12
MaxLines == 3
MaxNotes == 2
MaxDots == 2
MaxLocked == 3
MaxRows == 3

---------------------------------------------------------------------------
(* Python values *)

None == <<"<None>">>
Pending == <<"<pending>">>

\* Python truthiness of an optional string
Truthy(v) == v # None /\ v # <<>>

\* x or y
Or(x, y) == IF Truthy(x) THEN x ELSE y

Digits == {"0", "1", "2", "3", "4", "5", "6", "7", "8", "9"}

DigitChar(d) ==
    CASE d = 0 -> "0" [] d = 1 -> "1" [] d = 2 -> "2" [] d = 3 -> "3"
      [] d = 4 -> "4" [] d = 5 -> "5" [] d = 6 -> "6" [] d = 7 -> "7"
      [] d = 8 -> "8" [] d = 9 -> "9"

DigitVal(c) == CHOOSE d \in 0..9 : DigitChar(d) = c

\* str(n) of a non-negative int
RECURSIVE Str(_)
Str(n) == IF n < 10 THEN <<DigitChar(n)>>
          ELSE Str(n \div 10) \o <<DigitChar(n % 10)>>

\* str.isdigit(): non-empty and every character a digit
IsDigitStr(s) == Len(s) > 0 /\ \A i \in 1..Len(s) : s[i] \in Digits

\* int(s) of a digit string
RECURSIVE ToInt(_)
ToInt(s) == IF Len(s) = 0 THEN 0
            ELSE 10 * ToInt(SubSeq(s, 1, Len(s) - 1)) + DigitVal(s[Len(s)])

\* dict.get(key) on a row: a row is the ordered list of its (column, value)
Get(row, key) ==
    IF \E i \in 1..Len(row) : row[i][1] = key
    THEN row[CHOOSE i \in 1..Len(row) : row[i][1] = key][2]
    ELSE None

---------------------------------------------------------------------------
(* utils/parsing.py *)

parse_phone_mut_any11(raw) ==
    LET s == IF Truthy(raw) THEN raw ELSE <<>>
        d0 == SelectSeq(s, LAMBDA c : c \in Digits)
        digits == IF Len(d0) = 11 THEN Tail(d0) ELSE d0
    IN  IF Len(digits) # 10 THEN None
        ELSE <<"(">> \o SubSeq(digits, 1, 3) \o <<")", " ">>
             \o SubSeq(digits, 4, 6) \o <<"-">> \o SubSeq(digits, 7, 10)

parse_phone(raw) ==
    LET s == IF Truthy(raw) THEN raw ELSE <<>>
        d0 == SelectSeq(s, LAMBDA c : c \in Digits)
        digits == IF Len(d0) > 0 /\ d0[1] = "1" /\ Len(d0) = 11
                  THEN Tail(d0) ELSE d0
    IN  IF Len(digits) # 10 THEN None
        ELSE <<"(">> \o SubSeq(digits, 1, 3) \o <<")", " ">>
             \o SubSeq(digits, 4, 6) \o <<"-">> \o SubSeq(digits, 7, 10)

\* str.strip() on a text whose only whitespace is the fragment " "
RECURSIVE Strip(_)
Strip(s) ==
    IF Len(s) = 0 THEN s
    ELSE IF s[1] = " " THEN Strip(Tail(s))
    ELSE IF s[Len(s)] = " " THEN Strip(SubSeq(s, 1, Len(s) - 1))
    ELSE s

\* sep.join(parts)
RECURSIVE Join(_, _)
Join(sep, parts) ==
    IF Len(parts) = 0 THEN <<>>
    ELSE IF Len(parts) = 1 THEN parts[1]
    ELSE parts[1] \o sep \o Join(sep, Tail(parts))

parse_full_location(row) ==
    LET dropoff_parts == << Get(row, "DropoffLocation"),
                            Get(row, "DropoffDormRoomNumber"),
                            Get(row, "DropoffDormRoomLetter"),
                            Get(row, "DropoffAddressLine1"),
                            Get(row, "DropoffAddressLine2") >>
        kept == SelectSeq(dropoff_parts,
                    LAMBDA part : part \notin {None, <<>>, <<"None">>, <<"Off-Campus">>})
    IN  Strip(Join(<<" ">>, kept))

\* parse_int: [ok, val]; ok = FALSE is the returned None
parse_int(val) ==
    LET neg  == Truthy(val) /\ val[1] = "-"
        body == IF neg THEN Tail(val) ELSE val
    IN  IF val = None \/ ~IsDigitStr(body) THEN [ok |-> FALSE, val |-> 0]
        ELSE LET i == IF neg THEN 0 - ToInt(body) ELSE ToInt(body)
             IN  IF i # 0 THEN [ok |-> TRUE, val |-> i]
                 ELSE [ok |-> FALSE, val |-> 0]

\* index of the last "." of a text, 0 when it has none
LastDot(s) ==
    IF \E i \in 1..Len(s) : s[i] = "."
    THEN CHOOSE i \in 1..Len(s) :
            s[i] = "." /\ \A j \in (i + 1)..Len(s) : s[j] # "."
    ELSE 0

\* parse_file_type: [err, val]; err = TRUE is the raised ValueError
parse_file_type(filepath) ==
    IF LastDot(filepath) > 0
    THEN [err |-> FALSE,
          val |-> SubSeq(filepath, LastDot(filepath) + 1, Len(filepath))]
    ELSE [err |-> TRUE, val |-> <<>>]

\* The date strings of the model: a date, and the same date with a time
\* after "T" or " "; anything else matches none of the three formats.
IsDate(f) == f \in {"2025-08-21", "2025-08-22"}

parse_date(val) ==
    IF ~Truthy(val) THEN None
    ELSE IF Len(val) = 1 /\ IsDate(val[1]) THEN val
    ELSE IF Len(val) = 3 /\ IsDate(val[1]) /\ val[2] \in {"T", " "}
            /\ val[3] = "10:00:00" THEN <<val[1]>>
    ELSE None

---------------------------------------------------------------------------
(* services/client.py *)

\* A JSON object is the list of its (key, value) pairs; obj.get(key, default)
GetD(obj, key, default) ==
    IF \E i \in 1..Len(obj) : obj[i][1] = key
    THEN obj[CHOOSE i \in 1..Len(obj) : obj[i][1] = key][2]
    ELSE default

\* _get_request: [ok, body]; ok = FALSE is the raised client error
RequestFailed == [ok |-> FALSE, body |-> <<>>]
Response(body) == [ok |-> TRUE, body |-> body]
\* the outcome of a call: not made yet, raised, or returned val
NotCalled == [st |-> "pending", val |-> <<>>]
Raised == [st |-> "raised", val |-> <<>>]
Returned(v) == [st |-> "returned", val |-> v]

LineTitle(item) == GetD(item, "ItemTitle", <<"Unknown">>)
LineQty(item) == GetD(item, "Quantity", 1)

HasTitle(aggregated, title) ==
    \E i \in 1..Len(aggregated) : aggregated[i].ItemTitle = title

\* one iteration of the aggregation loop; the dict keeps insertion order
AggregateStep_mut_overwrite(aggregated, item) ==
    LET title == LineTitle(item)
        qty   == LineQty(item)
    IN  IF HasTitle(aggregated, title)
        THEN [i \in 1..Len(aggregated) |->
                IF aggregated[i].ItemTitle = title
                THEN [aggregated[i] EXCEPT !.Quantity = qty]
                ELSE aggregated[i]]
        ELSE Append(aggregated, [ItemTitle |-> title, Quantity |-> qty])

AggregateStep(aggregated, item) ==
    LET title == LineTitle(item)
        qty   == LineQty(item)
    IN  IF HasTitle(aggregated, title)
        THEN [i \in 1..Len(aggregated) |->
                IF aggregated[i].ItemTitle = title
                THEN [aggregated[i] EXCEPT !.Quantity = @ + qty]
                ELSE aggregated[i]]
        ELSE Append(aggregated, [ItemTitle |-> title, Quantity |-> qty])

RECURSIVE Aggregate(_, _)
Aggregate(aggregated, items) ==
    IF Len(items) = 0 THEN aggregated
    ELSE Aggregate(AggregateStep(aggregated, items[1]), Tail(items))

fetch_items(resp) ==
    IF ~resp.ok THEN Raised
    ELSE IF Len(resp.body) = 0 THEN Raised
    ELSE Returned(Aggregate(<<>>, resp.body))

fetch_dropoff_info_mut_lenient(resp) ==
    IF ~resp.ok THEN Raised
    ELSE IF Len(resp.body) = 0 THEN Raised
    ELSE Returned(resp.body)

fetch_dropoff_info(resp) ==
    IF ~resp.ok THEN Raised
    ELSE IF Len(resp.body) = 0
            \/ ~Truthy(GetD(resp.body, "StorageUnitName", None))
            \/ ~Truthy(GetD(resp.body, "Quadrant", None)) THEN Raised
    ELSE Returned(resp.body)

\* An image descriptor carries, beside its Filepath, whether the download
\* of its ImageURL succeeds.
ImageFileName(oid, image_index, file_ext) ==
    <<"data/images/">> \o Str(oid) \o <<"_">> \o Str(image_index)
        \o <<".">> \o file_ext

fetch_images(oid, resp) ==
    IF ~resp.ok THEN Raised
    ELSE IF Len(resp.body) = 0 THEN Raised
    ELSE IF \E i \in 1..Len(resp.body) :
               \/ parse_file_type(GetD(resp.body[i], "Filepath", <<>>)).err
               \/ ~GetD(resp.body[i], "Downloads", TRUE)
         THEN Raised
    ELSE Returned([i \in 1..Len(resp.body) |->
            ImageFileName(oid, i,
                parse_file_type(GetD(resp.body[i], "Filepath", <<>>)).val)])

EndsWithDot(comment) == Len(comment) > 0 /\ comment[Len(comment)] = "."

RenderNote_mut_always_dot(note) ==
    LET comment      == GetD(note, "Comment", <<>>)
        username     == GetD(note, "AddedByUserName", <<"Unknown">>)
        created_date == parse_date(GetD(note, "CreatedDate", None))
        is_deleted   == GetD(note, "Deleted", None) = <<"1">>
    IN  (IF is_deleted THEN <<"DELETED ">> ELSE <<>>)
        \o <<"Internal note by ">> \o username \o <<" on ">>
        \o (IF created_date = None THEN <<"None">> ELSE created_date)
        \o <<": ">> \o comment \o <<".">>

\* note_str of one note
RenderNote(note) ==
    LET comment      == GetD(note, "Comment", <<>>)
        username     == GetD(note, "AddedByUserName", <<"Unknown">>)
        created_date == parse_date(GetD(note, "CreatedDate", None))
        is_deleted   == GetD(note, "Deleted", None) = <<"1">>
    IN  (IF is_deleted THEN <<"DELETED ">> ELSE <<>>)
        \o <<"Internal note by ">> \o username \o <<" on ">>
        \o (IF created_date = None THEN <<"None">> ELSE created_date)
        \o <<": ">> \o comment
        \o (IF EndsWithDot(comment) THEN <<>> ELSE <<".">>)

fetch_internal_notes(resp) ==
    IF ~resp.ok THEN Raised
    ELSE Returned([i \in 1..Len(resp.body) |-> RenderNote(resp.body[i])])

---------------------------------------------------------------------------
(* utils/openai.py *)

\* What client.responses.create does: raise, or return a response whose
\* output_text is a text or absent.
OpenAIOutcomes == { RequestFailed, Response(None), Response(<<"JAYN">>) }

\* ask_openai: the exception is caught and None returned
ask_openai(outcome) == IF ~outcome.ok THEN None ELSE outcome.body

---------------------------------------------------------------------------
(* utils/comments.py *)

\* the parts of the comment assembled before the internal notes
CommentFlags(data) ==
    LET dropoff_name  == Get(data, "DropoffPersonName")
        dropoff_phone == Get(data, "DropoffPersonPhone")
        balance       == parse_int(Get(data, "Balance"))
    IN  (IF Get(data, "Cancelled") = <<"1">>
         THEN << <<"Order was canceled.">> >> ELSE <<>>)
        \o (IF Get(data, "Deleted") = <<"1">>
            THEN << <<"Order was deleted.">> >> ELSE <<>>)
        \o (IF Truthy(dropoff_name) /\ Truthy(dropoff_phone)
            THEN << <<"Call proxy ">> \o dropoff_name \o <<" at ">>
                    \o (IF parse_phone(dropoff_phone) = None THEN <<"None">>
                        ELSE parse_phone(dropoff_phone)) >>
            ELSE <<>>)
        \o (IF balance.ok /\ balance.val > 0
            THEN << <<"Call customer to pay pending balance.">> >> ELSE <<>>)

\* whether generate_comments asks for the internal notes
FetchesNotes(data) == Get(data, "OrderID") # None

generate_comments_mut_fail_empty(data, resp) ==
    LET notes == IF FetchesNotes(data) THEN fetch_internal_notes(resp)
                 ELSE Returned(<<>>)
    IN  IF notes.st = "returned"
        THEN Join(<<" ">>, CommentFlags(data) \o notes.val)
        ELSE <<>>

\* generate_comments, resp being the API's answer to the notes request
generate_comments(data, resp) ==
    LET notes == IF FetchesNotes(data) THEN fetch_internal_notes(resp)
                 ELSE Returned(<<>>)
    IN  Join(<<" ">>, CommentFlags(data)
                      \o (IF notes.st = "returned" THEN notes.val ELSE <<>>))

---------------------------------------------------------------------------
(* services/order_details.py *)

\* next(iter(row))
FirstKey(row) == row[1][1]

get_order_id_mut_no_fallback(row) ==
    LET order_id_str == Get(row, "OrderID")
    IN  IF order_id_str # None /\ IsDigitStr(order_id_str)
        THEN Returned(ToInt(order_id_str))
        ELSE Raised

\* get_order_id: Raised is the ValueError (StopIteration for an empty row)
get_order_id(row) ==
    LET named == Get(row, "OrderID")
    IN  IF ~Truthy(named) /\ Len(row) = 0 THEN Raised
        ELSE LET order_id_str == Or(named, Get(row, FirstKey(row)))
             IN  IF order_id_str # None /\ IsDigitStr(order_id_str)
                 THEN Returned(ToInt(order_id_str))
                 ELSE Raised

\* (old_row.get("FullName") or "").split(" ")[0]
FirstName(row) ==
    LET name == Or(Get(row, "FullName"), <<>>)
    IN  IF \E i \in 1..Len(name) : name[i] = " "
        THEN SubSeq(name, 1,
                (CHOOSE i \in 1..Len(name) :
                    name[i] = " " /\ \A j \in 1..(i - 1) : name[j] # " ") - 1)
        ELSE name

Pronounce_mut_no_default(outcome) == ask_openai(outcome)

\* ask_openai(...) or ""
Pronounce(outcome) == Or(ask_openai(outcome), <<>>)

ItemsText(items) ==
    IF Len(items) = 0 THEN <<>>
    ELSE Join(<<", ">>, [i \in 1..Len(items) |->
            Str(items[i].Quantity) \o <<"x ">> \o items[i].ItemTitle])

StorageUnit(dropoff_info) ==
    IF Len(dropoff_info) = 0 THEN <<>>
    ELSE Strip(GetD(dropoff_info, "StorageUnitName", <<>>) \o <<" ">>
               \o GetD(dropoff_info, "Quadrant", <<>>))

\* the dict build_row returns
NewRow(old_row, pron, itext, unit, images, comments) ==
    [ ID            |-> Get(old_row, "OrderID"),
      Name          |-> Get(old_row, "FullName"),
      Pronunciation |-> pron,
      Phone         |-> parse_phone(Get(old_row, "StudentPhone")),
      Location      |-> parse_full_location(old_row),
      Ct            |-> Get(old_row, "ItemCount"),
      Items         |-> itext,
      TimeLoaded    |-> <<>>,
      TimeArrived   |-> <<>>,
      TimeDelivered |-> <<>>,
      StorageUnit   |-> unit,
      ParentPhone   |-> parse_phone(Get(old_row, "ParentPhone")),
      ImageCt       |-> Len(images),
      Comments      |-> comments ]

---------------------------------------------------------------------------
(* utils/csv.py *)

add_suffix_to_file_name(name, suffix) ==
    IF LastDot(name) > 0
    THEN SubSeq(name, 1, LastDot(name) - 1) \o suffix \o <<".">>
         \o SubSeq(name, LastDot(name) + 1, Len(name))
    ELSE name \o suffix

\* index of the first "." of a text, 0 when it has none
FirstDot(s) ==
    IF \E i \in 1..Len(s) : s[i] = "."
    THEN CHOOSE i \in 1..Len(s) :
            s[i] = "." /\ \A j \in 1..(i - 1) : s[j] # "."
    ELSE 0

\* scripts/get_details.py: parts = file_name.split("."), then parts[0],
\* the suffix, "." and parts[1]; Raised is the IndexError of parts[1]
get_details_add_suffix_to_file_name(name, suffix) ==
    IF FirstDot(name) = 0 THEN Raised
    ELSE LET rest == SubSeq(name, FirstDot(name) + 1, Len(name))
         IN  Returned(SubSeq(name, 1, FirstDot(name) - 1) \o suffix \o <<".">>
                      \o (IF FirstDot(rest) = 0 THEN rest
                          ELSE SubSeq(rest, 1, FirstDot(rest) - 1)))

\* scripts/get_details.py
ORDER_IDS_FILE_NAME == <<"data\\order_ids_8-21-25", ".", "csv">>

\* scripts/get_items.py
ORDER_ID_FILE_NAME == <<"data\\order_ids_8-21-25", ".", "csv">>

\* scripts/get_items.py: the parts are those of the global
\* ORDER_ID_FILE_NAME, the parameter file_name is not read
get_items_add_suffix_to_file_name(name, suffix) ==
    get_details_add_suffix_to_file_name(ORDER_ID_FILE_NAME, suffix)

\* f" ({attempt})"
AttemptSuffix(n) == <<" (">> \o Str(n) \o <<")">>

\* open() and the writes of one attempt end in one of these
WriteOutcomes == {"ok", "PermissionError", "OSError"}

Retries_mut_any_error(outcome) == outcome # "ok"

\* except PermissionError: the attempt is repeated under a new name
Retries(outcome) == outcome = "PermissionError"

---------------------------------------------------------------------------
(* Quiescent values of each component's variables, for the specifications *)
(* that exercise another component.                                       *)

IdlePhone == raw_phone = None /\ phone_out = Pending
IdleItems == api_items = RequestFailed /\ items_out = NotCalled
IdleNotes == api_notes = RequestFailed /\ notes_out = NotCalled
IdleWrite ==
    /\ file_name = <<>> /\ rows = <<>> /\ attempt = 0 /\ w_pc = "idle"
    /\ w_plan = <<>> /\ opened = <<>> /\ w_result = NotCalled
IdleComments ==
    comment_data = <<>> /\ comment_notes = RequestFailed /\ comments_out = NotCalled
IdleSuffix ==
    /\ sfx_path = <<>> /\ sfx_ext = None /\ sfx_suffix = <<>>
    /\ suffixed = [m \in {} |-> NotCalled]
IdlePipe ==
    /\ old_rows = <<>> /\ idx = 0 /\ pc = "idle" /\ order_id = 0
    /\ pronunciation = <<>> /\ items_text = <<>> /\ storage_unit = <<>>
    /\ image_file_names = <<>> /\ new_rows = <<>> /\ warnings = <<>>
    /\ calls = <<>> /\ emitted = <<>>

---------------------------------------------------------------------------
(* parse_phone applied to bounded inputs *)

\* n digits, the first one lead, with a "-" after the sep-th digit (sep > 0)
MkPhone(n, lead, sep) ==
    LET d == [i \in 1..n |-> IF i = 1 THEN lead ELSE DigitChar((i * 7) % 10)]
    IN  IF sep = 0 THEN d
        ELSE SubSeq(d, 1, sep) \o <<"-">> \o SubSeq(d, sep + 1, n)

PhoneInputs ==
    {None, <<"n", "/", "a">>} \cup
    UNION { { MkPhone(n, lead, sep) : lead \in {"1", "5"}, sep \in 0..n } :
            n \in 0..MaxPhoneDigits }

InitPhone ==
    /\ raw_phone \in PhoneInputs
    /\ phone_out = Pending
    /\ IdleItems /\ IdleNotes /\ IdleWrite /\ IdlePipe /\ IdleComments
    /\ IdleSuffix

ParsePhone ==
    /\ phone_out = Pending
    /\ phone_out' = parse_phone(raw_phone)
    /\ UNCHANGED <<raw_phone, itemVars, noteVars, writeVars, pipeVars,
                   commentVars, suffixVars>>

NextPhone == ParsePhone

SpecPhone == InitPhone /\ [][NextPhone]_vars

\* the digits of the argument, in order
PhoneDigits == SelectSeq(IF raw_phone = None THEN <<>> ELSE raw_phone,
                         LAMBDA c : c \in Digits)

\* d is ten digits and p is "(AAA) BBB-CCCC" made of them in order
Formatted(p, d) ==
    /\ Len(p) = 14
    /\ p[1] = "(" /\ p[5] = ")" /\ p[6] = " " /\ p[10] = "-"
    /\ \A i \in 1..3 : p[1 + i] = d[i]
    /\ \A i \in 4..6 : p[3 + i] = d[i]
    /\ \A i \in 7..10 : p[4 + i] = d[i]

\* C9: parse_phone returns "(AAA) BBB-CCCC" of the digits when there are
\* exactly 10, the same for the trailing 10 of 11 digits that begin with
\* "1", and None (no value, nothing raised) for every other digit count.
C9_ParsePhone ==
    phone_out # Pending =>
        LET d == PhoneDigits
        IN  /\ Len(d) = 10 => Formatted(phone_out, d)
            /\ (Len(d) = 11 /\ d[1] = "1") =>
                    /\ Formatted(phone_out, Tail(d))
                    /\ phone_out = parse_phone(Tail(d))
            /\ (Len(d) # 10 /\ ~(Len(d) = 11 /\ d[1] = "1")) =>
                    phone_out = None

C9_Witness ==
    /\ phone_out # Pending /\ phone_out # None
    /\ Len(PhoneDigits) = 11 /\ Len(raw_phone) = 12

---------------------------------------------------------------------------
(* fetch_items applied to bounded API responses *)

ItemTitles == {<<"Box">>, <<"Unknown">>}
ItemQtys == {2, 3}

\* item lines with and without each of the two keys
ItemLines ==
    { <<<<"ItemTitle", t>>, <<"Quantity", q>>>> : t \in ItemTitles, q \in ItemQtys }
    \cup { <<<<"Quantity", q>>>> : q \in ItemQtys }
    \cup { <<<<"ItemTitle", t>>>> : t \in ItemTitles }

SeqsUpTo(S, n) == UNION { [1..k -> S] : k \in 0..n }

InitItems ==
    /\ api_items \in {RequestFailed}
                     \cup { Response(b) : b \in SeqsUpTo(ItemLines, MaxLines) }
    /\ items_out = NotCalled
    /\ IdlePhone /\ IdleNotes /\ IdleWrite /\ IdlePipe /\ IdleComments
    /\ IdleSuffix

FetchItemsCall ==
    /\ items_out.st = "pending"
    /\ items_out' = fetch_items(api_items)
    /\ UNCHANGED <<api_items, phoneVars, noteVars, writeVars, pipeVars,
                   commentVars, suffixVars>>

NextItems == FetchItemsCall

SpecItems == InitItems /\ [][NextItems]_vars

\* sum of the quantities of the lines titled t
RECURSIVE QtySum(_, _)
QtySum(lines, t) ==
    IF Len(lines) = 0 THEN 0
    ELSE (IF LineTitle(lines[1]) = t THEN LineQty(lines[1]) ELSE 0)
         + QtySum(Tail(lines), t)

\* index of the first line titled t
FirstLine(lines, t) ==
    CHOOSE i \in 1..Len(lines) :
        LineTitle(lines[i]) = t /\ \A j \in 1..(i - 1) : LineTitle(lines[j]) # t

\* C5: for a non-empty list of item lines fetch_items returns one entry per
\* distinct title, in order of first appearance, each with the sum of the
\* quantities of the lines of that title.
C5_Aggregation ==
    (items_out.st # "pending" /\ api_items.ok /\ Len(api_items.body) > 0) =>
        LET lines == api_items.body
            out   == items_out.val
        IN  /\ items_out.st = "returned"
            /\ \A i, j \in 1..Len(out) :
                    out[i].ItemTitle = out[j].ItemTitle => i = j
            /\ { out[i].ItemTitle : i \in 1..Len(out) }
                    = { LineTitle(lines[k]) : k \in 1..Len(lines) }
            /\ \A i, j \in 1..Len(out) :
                    i < j => FirstLine(lines, out[i].ItemTitle)
                                < FirstLine(lines, out[j].ItemTitle)
            /\ \A i \in 1..Len(out) :
                    out[i].Quantity = QtySum(lines, out[i].ItemTitle)

\* two lines of one title (2 and 3) around a line of another title
C5_Witness ==
    /\ items_out.st = "returned" /\ api_items.ok /\ Len(api_items.body) = 3
    /\ LineTitle(api_items.body[1]) = LineTitle(api_items.body[3])
    /\ LineTitle(api_items.body[1]) # LineTitle(api_items.body[2])
    /\ LineQty(api_items.body[1]) = 2 /\ LineQty(api_items.body[3]) = 3
    /\ Len(items_out.val) = 2 /\ items_out.val[1].Quantity = 5

---------------------------------------------------------------------------
(* fetch_internal_notes applied to bounded API responses *)

Dots(n) == [i \in 1..n |-> "."]

NoteComments ==
    { body \o Dots(n) : body \in {<<>>, <<"o", "k">>}, n \in 0..MaxDots }

\* notes with every comment and deleted flag, and notes lacking a key
ApiNotes ==
    { <<<<"Comment", c>>, <<"AddedByUserName", <<"amy">>>>,
        <<"CreatedDate", <<"2025-08-21", "T", "10:00:00">>>>, <<"Deleted", d>>>> :
        c \in NoteComments, d \in {<<"0">>, <<"1">>} }
    \cup { <<<<"Comment", c>>, <<"CreatedDate", <<"2025-08-22">>>>>> :
            c \in NoteComments }
    \cup { <<<<"AddedByUserName", <<"bo">>>>, <<"CreatedDate", <<"soon">>>>,
             <<"Deleted", d>>>> : d \in {<<"0">>, <<"1">>} }

InitNotes ==
    /\ api_notes \in {RequestFailed}
                     \cup { Response(b) : b \in SeqsUpTo(ApiNotes, MaxNotes) }
    /\ notes_out = NotCalled
    /\ IdlePhone /\ IdleItems /\ IdleWrite /\ IdlePipe /\ IdleComments
    /\ IdleSuffix

FetchNotesCall ==
    /\ notes_out.st = "pending"
    /\ notes_out' = fetch_internal_notes(api_notes)
    /\ UNCHANGED <<api_notes, phoneVars, itemVars, writeVars, pipeVars,
                   commentVars, suffixVars>>

NextNotes == FetchNotesCall

SpecNotes == InitNotes /\ [][NextNotes]_vars

\* the number of "." a text ends with
RECURSIVE TrailingDots(_)
TrailingDots(t) ==
    IF Len(t) > 0 /\ t[Len(t)] = "."
    THEN 1 + TrailingDots(SubSeq(t, 1, Len(t) - 1)) ELSE 0

NoteDeleted(note) ==
    \E i \in 1..Len(note) : note[i] = <<"Deleted", <<"1">>>>

NoteComment(note) == GetD(note, "Comment", <<>>)

\* the marker leads the rendering of exactly the deleted notes, and an
\* order without notes gives the empty list
NotesMarked ==
    /\ notes_out.st = "returned"
    /\ Len(notes_out.val) = Len(api_notes.body)
    /\ \A i \in 1..Len(api_notes.body) :
            NoteDeleted(api_notes.body[i]) <=> notes_out.val[i][1] = "DELETED "

\* C6 as claimed: every rendered note ends in exactly one period.
C6_ExactlyOnePeriod ==
    (notes_out.st # "pending" /\ api_notes.ok) =>
        /\ NotesMarked
        /\ \A i \in 1..Len(api_notes.body) :
                TrailingDots(notes_out.val[i]) = 1

\* C6 amended: deleted notes, and only they, are rendered with a leading
\* "DELETED "; every rendered note ends in a period, which is appended
\* exactly when the comment does not already end in one, so the note ends
\* in the comment's own trailing periods, or in one when it has none; an
\* order without notes gives the empty list and no error.
C6_NoteRendering ==
    (notes_out.st # "pending" /\ api_notes.ok) =>
        /\ NotesMarked
        /\ \A i \in 1..Len(api_notes.body) :
                LET n == TrailingDots(NoteComment(api_notes.body[i]))
                IN  TrailingDots(notes_out.val[i]) = IF n = 0 THEN 1 ELSE n

\* a deleted note whose comment lacks the period beside a live one that
\* has it
C6_Witness ==
    /\ notes_out.st = "returned" /\ Len(api_notes.body) = 2
    /\ NoteDeleted(api_notes.body[1])
    /\ TrailingDots(NoteComment(api_notes.body[1])) = 0
    /\ ~NoteDeleted(api_notes.body[2])
    /\ TrailingDots(NoteComment(api_notes.body[2])) = 1
    /\ notes_out.val[1][1] = "DELETED "

---------------------------------------------------------------------------
(* write_to_csv against a file system that decides each attempt *)

FileNames == { <<"orders_output", ".", "csv">>,
               <<"data", ".", "v2", ".", "csv">>,
               <<"out">> }

OneRow == << <<"ID", <<"1">>>> >>

InitWrite ==
    /\ file_name \in FileNames
    /\ rows \in {<<>>, <<OneRow>>}
    /\ attempt = 0
    /\ w_pc = "call"
    /\ w_plan \in [1..(MaxLocked + 1) -> WriteOutcomes]
    /\ opened = <<>>
    /\ w_result = NotCalled
    /\ IdlePhone /\ IdleItems /\ IdleNotes /\ IdlePipe /\ IdleComments
    /\ IdleSuffix

\* entry of write_to_csv: the guard on rows, attempt = 0
WriteEnter ==
    /\ w_pc = "call"
    /\ IF Len(rows) = 0
       THEN /\ w_pc' = "raised"
            /\ w_result' = [st |-> "raised", val |-> <<"ValueError">>]
       ELSE /\ w_pc' = "try"
            /\ UNCHANGED w_result
    /\ attempt' = 0
    /\ UNCHANGED <<file_name, rows, w_plan, opened>>
    /\ UNCHANGED notWrite

\* one iteration of the while loop: the file system answers the attempt
\* numbered Len(opened) + 1 with w_plan's entry for it
WriteAttempt ==
    /\ w_pc = "try"
    /\ Len(opened) < Len(w_plan)
    /\ LET outcome == w_plan[Len(opened) + 1]
       IN  /\ opened' = Append(opened, file_name)
           /\ IF outcome = "ok"
              THEN /\ w_pc' = "done"
                   /\ w_result' = Returned(file_name)
                   /\ UNCHANGED <<file_name, attempt>>
              ELSE IF Retries(outcome)
              THEN /\ attempt' = attempt + 1
                   /\ file_name' = add_suffix_to_file_name(
                                        file_name, AttemptSuffix(attempt + 1))
                   /\ UNCHANGED <<w_pc, w_result>>
              ELSE /\ w_pc' = "raised"
                   /\ w_result' = [st |-> "raised", val |-> <<outcome>>]
                   /\ UNCHANGED <<file_name, attempt>>
    /\ UNCHANGED <<rows, w_plan>>
    /\ UNCHANGED notWrite

NextWrite ==
    \/ WriteEnter
    \/ WriteAttempt

SpecWrite == InitWrite /\ [][NextWrite]_vars

\* the script runs on: an enabled step of write_to_csv is taken
FairSpecWrite == SpecWrite /\ WF_vars(NextWrite)

WriteTerminated == w_pc \in {"done", "raised"}

\* C3 as claimed: after k permission errors the next attempt opens
\* "name (k).ext", whatever k is.
C3_CounterSuffixOnly ==
    \A k \in 1..(Len(opened) - 1) :
        LastDot(opened[1]) > 0 =>
            opened[k + 1] =
                SubSeq(opened[1], 1, LastDot(opened[1]) - 1)
                \o <<" (">> \o Str(k) \o <<")", ".">>
                \o SubSeq(opened[1], LastDot(opened[1]) + 1, Len(opened[1]))

\* every attempt made so far but the last met a permission error; the call
\* is still trying only if the last one did too; it has returned only the
\* name of a last attempt that succeeded; it has raised only the error of
\* a last attempt that failed otherwise
WriteOutcome ==
    (Len(rows) > 0 /\ w_pc # "call") =>
        /\ \A i \in 1..(Len(opened) - 1) : w_plan[i] = "PermissionError"
        /\ w_pc = "try" =>
                \A i \in 1..Len(opened) : w_plan[i] = "PermissionError"
        /\ w_pc = "done" =>
                /\ Len(opened) > 0
                /\ w_plan[Len(opened)] = "ok"
                /\ w_result = Returned(opened[Len(opened)])
        /\ w_pc = "raised" =>
                /\ Len(opened) > 0
                /\ w_plan[Len(opened)] \notin {"ok", "PermissionError"}
                /\ w_result.st = "raised"
                /\ w_result.val = <<w_plan[Len(opened)]>>

\* C4: write_to_csv retries as long as the attempts raise a permission
\* error, returns the name it wrote at the first attempt that succeeds,
\* propagates any other error, makes no attempt after that, and ends
\* whenever some attempt is not answered with a permission error.
C4_WriteRetry ==
    /\ []WriteOutcome
    /\ [][WriteTerminated => opened' = opened]_vars
    /\ (\E i \in 1..Len(w_plan) : w_plan[i] # "PermissionError")
            => <>WriteTerminated

\* returned the name of the third attempt after two locked ones
C4_Witness ==
    /\ w_pc = "done" /\ Len(opened) = 3 /\ attempt = 2
    /\ w_result.val = opened[3] /\ opened[3] # opened[1]

---------------------------------------------------------------------------
(* get_updated_rows over a batch of input rows, the order API and the    *)
(* text-generation API answering each call as they choose                 *)

RowJane ==
    << <<"OrderID", <<"1", "2", "3">>>>,
       <<"FullName", <<"Jane", " ", "Doe">>>>,
       <<"StudentPhone", <<"5", "5", "5", "1", "2", "3", "4", "5", "6", "7">>>> >>

\* a non-numeric order id
RowBad ==
    << <<"OrderID", <<"1", "2", "a">>>>, <<"FullName", <<"Bob">>>> >>

\* an empty order id in the first column
RowEmptyId ==
    << <<"OrderID", <<>>>>, <<"FullName", <<"Cy">>>> >>

\* no OrderID column: the id is in the first column
RowFirstCol ==
    << <<"ID", <<"4", "5">>>>,
       <<"FullName", <<"Al", " ", "Ng">>>>,
       <<"ParentPhone", <<"1", "-", "5", "5", "5", "1", "2", "3", "4", "5", "6", "7">>>>,
       <<"DropoffLocation", <<"Off-Campus">>>>,
       <<"DropoffAddressLine1", <<"12 Elm St">>>>,
       <<"Cancelled", <<"1">>>>,
       <<"Balance", <<"5", "0">>>> >>

\* the order id "0", and a proxy
RowZero ==
    << <<"OrderID", <<"0">>>>,
       <<"FullName", <<"Di">>>>,
       <<"ItemCount", <<"2">>>>,
       <<"DropoffPersonName", <<"Ed">>>>,
       <<"DropoffPersonPhone", <<"5", "5", "5">>>> >>

\* an empty OrderID column after a first column that holds a number
RowBlankId ==
    << <<"Ref", <<"7">>>>, <<"OrderID", <<>>>>, <<"FullName", <<"Flo">>>> >>

\* an order id with leading zeros
RowPadded ==
    << <<"OrderID", <<"0", "0", "7">>>>, <<"FullName", <<"Gus">>>> >>

\* a non-numeric first column and no OrderID column
RowNoId ==
    << <<"FullName", <<"Hal">>>>, <<"ID", <<"9">>>> >>

\* the rows of a batch
InputRows == {RowJane, RowBad, RowFirstCol}

\* the rows of a run over a single row
SingleRows == {RowJane, RowBad, RowEmptyId, RowFirstCol, RowZero, RowBlankId,
               RowPadded, RowNoId}

BoxLine == << <<"Quantity", 1>>, <<"ItemTitle", <<"Box">>>> >>

ItemResponses == { RequestFailed, Response(<<>>), Response(<<BoxLine, BoxLine>>) }

DropoffResponses ==
    { RequestFailed,
      Response(<< <<"StorageUnitName", <<"A1">>>> >>),
      Response(<< <<"StorageUnitName", <<"A1">>>>, <<"Quadrant", <<"NE">>>> >>) }

ImageResponses ==
    { RequestFailed,
      Response(<<>>),
      Response(<< << <<"ImageURL", <<"u1">>>>,
                     <<"Filepath", <<"a", ".", "jpg">>>> >> >>),
      Response(<< << <<"ImageURL", <<"u1">>>>,
                     <<"Filepath", <<"a", ".", "jpg">>>>,
                     <<"Downloads", FALSE>> >> >>) }

NoteResponses ==
    { RequestFailed,
      Response(<<>>),
      Response(<< << <<"Comment", <<"o", "k">>>>,
                     <<"AddedByUserName", <<"amy">>>>,
                     <<"CreatedDate", <<"2025-08-21">>>>,
                     <<"Deleted", <<"1">>>> >> >>) }

InitPipe(batches) ==
    /\ old_rows \in batches
    /\ idx = 0
    /\ pc = "loop"
    /\ order_id = 0
    /\ pronunciation = <<>>
    /\ items_text = <<>>
    /\ storage_unit = <<>>
    /\ image_file_names = <<>>
    /\ new_rows = <<>>
    /\ warnings = <<>>
    /\ calls = <<>>
    /\ emitted = <<>>
    /\ IdlePhone /\ IdleItems /\ IdleNotes /\ IdleWrite /\ IdleComments
    /\ IdleSuffix

\* the row of the current iteration (enumerate counts from 0)
OldRow == old_rows[idx + 1]

Call(api, arg, resp) == [row |-> idx, api |-> api, arg |-> arg, resp |-> resp]

\* build_row is left: its locals are gone
ResetLocals ==
    /\ order_id' = 0
    /\ pronunciation' = <<>>
    /\ items_text' = <<>>
    /\ storage_unit' = <<>>
    /\ image_file_names' = <<>>

SkipRow_mut_abort(error) ==
    /\ warnings' = Append(warnings, <<idx, error>>)
    /\ idx' = Len(old_rows)
    /\ pc' = "loop"
    /\ ResetLocals
    /\ UNCHANGED <<old_rows, new_rows, emitted>>

\* except Exception: the warning, bar(), sleep, the next iteration
SkipRow(error) ==
    /\ warnings' = Append(warnings, <<idx, error>>)
    /\ idx' = idx + 1
    /\ pc' = "loop"
    /\ ResetLocals
    /\ UNCHANGED <<old_rows, new_rows, emitted>>

GetOrderId_mut_asks_first ==
    /\ pc = "loop"
    /\ idx < Len(old_rows)
    /\ calls' = <<Call("ask_openai", FirstName(OldRow), RequestFailed)>>
    /\ LET r == get_order_id(OldRow)
       IN  IF r.st = "raised" THEN SkipRow("ValueError")
           ELSE /\ order_id' = r.val
                /\ pc' = "items"
                /\ UNCHANGED <<old_rows, idx, pronunciation, items_text,
                               storage_unit, image_file_names, new_rows,
                               warnings, emitted>>
    /\ UNCHANGED notPipe

\* the loop takes a row and build_row starts: get_order_id
GetOrderId ==
    /\ pc = "loop"
    /\ idx < Len(old_rows)
    /\ calls' = <<>>
    /\ LET r == get_order_id(OldRow)
       IN  IF r.st = "raised" THEN SkipRow("ValueError")
           ELSE /\ order_id' = r.val
                /\ pc' = "ask"
                /\ UNCHANGED <<old_rows, idx, pronunciation, items_text,
                               storage_unit, image_file_names, new_rows,
                               warnings, emitted>>
    /\ UNCHANGED notPipe

AskOpenAI ==
    /\ pc = "ask"
    /\ \E outcome \in OpenAIOutcomes :
        /\ calls' = Append(calls, Call("ask_openai", FirstName(OldRow), outcome))
        /\ pronunciation' = Pronounce(outcome)
    /\ pc' = "items"
    /\ UNCHANGED <<old_rows, idx, order_id, items_text, storage_unit,
                   image_file_names, new_rows, warnings, emitted>>
    /\ UNCHANGED notPipe

FetchItems ==
    /\ pc = "items"
    /\ \E resp \in ItemResponses :
        /\ calls' = Append(calls, Call("fetch_items", order_id, resp))
        /\ LET r == fetch_items(resp)
           IN  IF r.st = "raised" THEN SkipRow("StorageScholarsClientError")
               ELSE /\ items_text' = ItemsText(r.val)
                    /\ pc' = "dropoff"
                    /\ UNCHANGED <<old_rows, idx, order_id, pronunciation,
                                   storage_unit, image_file_names, new_rows,
                                   warnings, emitted>>
    /\ UNCHANGED notPipe

FetchDropoff ==
    /\ pc = "dropoff"
    /\ \E resp \in DropoffResponses :
        /\ calls' = Append(calls, Call("fetch_dropoff_info", order_id, resp))
        /\ LET r == fetch_dropoff_info(resp)
           IN  IF r.st = "raised" THEN SkipRow("StorageScholarsClientError")
               ELSE /\ storage_unit' = StorageUnit(r.val)
                    /\ pc' = "images"
                    /\ UNCHANGED <<old_rows, idx, order_id, pronunciation,
                                   items_text, image_file_names, new_rows,
                                   warnings, emitted>>
    /\ UNCHANGED notPipe

FetchImages ==
    /\ pc = "images"
    /\ \E resp \in ImageResponses :
        /\ calls' = Append(calls, Call("fetch_images", order_id, resp))
        /\ LET r == fetch_images(order_id, resp)
           IN  IF r.st = "raised" THEN SkipRow("StorageScholarsClientError")
               ELSE /\ image_file_names' = r.val
                    /\ pc' = "compose"
                    /\ UNCHANGED <<old_rows, idx, order_id, pronunciation,
                                   items_text, storage_unit, new_rows,
                                   warnings, emitted>>
    /\ UNCHANGED notPipe

\* the returned dict, generate_comments included, and new_rows.append
Compose ==
    /\ pc = "compose"
    /\ \E resp \in NoteResponses :
        /\ calls' = IF FetchesNotes(OldRow)
                    THEN Append(calls, Call("fetch_internal_notes",
                                            Get(OldRow, "OrderID"), resp))
                    ELSE calls
        /\ new_rows' = Append(new_rows,
                NewRow(OldRow, pronunciation, items_text, storage_unit,
                       image_file_names, generate_comments(OldRow, resp)))
    /\ emitted' = Append(emitted, idx)
    /\ idx' = idx + 1
    /\ pc' = "loop"
    /\ ResetLocals
    /\ UNCHANGED <<old_rows, warnings>>
    /\ UNCHANGED notPipe

\* the loop is over: return new_rows
Finish ==
    /\ pc = "loop"
    /\ idx = Len(old_rows)
    /\ pc' = "done"
    /\ UNCHANGED <<old_rows, idx, order_id, pronunciation, items_text,
                   storage_unit, image_file_names, new_rows, warnings, calls,
                   emitted>>
    /\ UNCHANGED notPipe

\* a batch of up to MaxRows rows
Init == InitPipe(UNION { [1..n -> InputRows] : n \in 1..MaxRows })

Next ==
    \/ GetOrderId
    \/ AskOpenAI
    \/ FetchItems
    \/ FetchDropoff
    \/ FetchImages
    \/ Compose
    \/ Finish

Spec == Init /\ [][Next]_vars

\* a single row, of more kinds
InitRow == InitPipe({ <<r>> : r \in SingleRows })

SpecRow == InitRow /\ [][Next]_vars

---------------------------------------------------------------------------
(* Properties of the pipeline *)

\* the text a row offers as its order id: the OrderID column's value or,
\* when that is missing or empty, the first column's
IdText(row) ==
    IF \E i \in 1..Len(row) : row[i][1] = "OrderID" /\ Len(row[i][2]) > 0
    THEN row[CHOOSE i \in 1..Len(row) : row[i][1] = "OrderID"][2]
    ELSE IF Len(row) > 0 THEN row[1][2] ELSE <<>>

NumericId(row) ==
    /\ Len(IdText(row)) > 0
    /\ \A i \in 1..Len(IdText(row)) : IdText(row)[i] \in Digits

\* the 0-based indices below n of the rows with a numeric id, ascending
RECURSIVE NumericIndices(_)
NumericIndices(n) ==
    IF n = 0 THEN <<>>
    ELSE NumericIndices(n - 1)
         \o (IF NumericId(old_rows[n]) THEN <<n - 1>> ELSE <<>>)

NoFetchFailed ==
    \A i \in 1..Len(warnings) : warnings[i][2] = "ValueError"

\* C1: when no fetch fails, the rows with a non-numeric order id are left
\* out, the loop goes on after them, and the output is exactly the other
\* rows in input order.
C1_RowSkipIsolation ==
    (pc = "done" /\ NoFetchFailed) =>
        /\ idx = Len(old_rows)
        /\ emitted = NumericIndices(Len(old_rows))
        /\ Len(new_rows) = Len(emitted)
        /\ \A k \in 1..Len(new_rows) :
                new_rows[k].Name = Get(old_rows[emitted[k] + 1], "FullName")
        /\ \A i \in 1..Len(old_rows) :
                ~NumericId(old_rows[i]) =>
                    \E k \in 1..Len(warnings) : warnings[k][1] = i - 1

\* three rows, the second one invalid: rows 1 and 3 are the output
C1_Witness ==
    /\ pc = "done" /\ NoFetchFailed /\ Len(old_rows) = 3
    /\ ~NumericId(old_rows[2])
    /\ emitted = <<0, 2>> /\ Len(new_rows) = 2
    /\ new_rows[1].Name # new_rows[2].Name

\* C10: no external call is made for a row whose order id is missing or
\* invalid: the row is skipped by the step that reads the id, every call
\* on record belongs to a row with a numeric id, and build_row is past
\* get_order_id only for such rows.
C10_IdentifyBeforeFetch ==
    /\ \A i \in 1..Len(calls) : NumericId(old_rows[calls[i].row + 1])
    /\ pc \in {"ask", "items", "dropoff", "images", "compose"} =>
            NumericId(OldRow)
    /\ \A i \in 1..idx :
            ~NumericId(old_rows[i]) =>
                /\ \E k \in 1..Len(warnings) :
                        warnings[k] = <<i - 1, "ValueError">>
                /\ \A k \in 1..Len(emitted) : emitted[k] # i - 1

\* an invalid row was just skipped, after a row that made its calls
C10_Witness ==
    /\ pc = "loop" /\ idx = 2 /\ emitted = <<0>>
    /\ ~NumericId(old_rows[2])
    /\ calls = <<>>
    /\ warnings = << <<1, "ValueError">> >>

\* a digit string without its leading zeros ("0" for zeros only)
RECURSIVE Canonical(_)
Canonical(t) == IF Len(t) > 1 /\ t[1] = "0" THEN Canonical(Tail(t)) ELSE t

\* a row with a missing, empty or non-numeric id is skipped with the
\* ValueError and nothing else happens to the run; no other row is
IdFailureConfined ==
    \A i \in 1..idx :
        /\ ~NumericId(old_rows[i]) =>
                /\ \E k \in 1..Len(warnings) :
                        warnings[k] = <<i - 1, "ValueError">>
                /\ pc \in {"loop", "ask", "items", "dropoff", "images",
                            "compose", "done"}
        /\ NumericId(old_rows[i]) =>
                \A k \in 1..Len(warnings) :
                    warnings[k] # <<i - 1, "ValueError">>

\* C7 as claimed: whenever get_order_id returns, the id is >= 1.
C7_PositiveId ==
    /\ pc = "ask" => (NumericId(OldRow) /\ order_id >= 1)
    /\ IdFailureConfined

\* C7 amended: get_order_id takes the OrderID column's value or, when
\* that is missing or empty, the first column's; whenever it returns, the
\* result is the non-negative integer (>= 0, "0" included) that value
\* spells in decimal; for a missing, empty or non-numeric value it raises,
\* and the failure is confined to the row.
C7_OrderId ==
    /\ pc = "ask" =>
            /\ NumericId(OldRow)
            /\ order_id >= 0
            /\ Str(order_id) = Canonical(IdText(OldRow))
    /\ IdFailureConfined

\* the id came from the first column and was returned
C7_Witness ==
    /\ pc = "ask" /\ order_id = 45 /\ Get(OldRow, "OrderID") = None

CallsOf(api) == SelectSeq(calls, LAMBDA c : c.api = api)

\* the fetch of items, dropoff info and images were made and returned
FetchesReturned ==
    /\ Len(CallsOf("fetch_items")) = 1
    /\ fetch_items(CallsOf("fetch_items")[1].resp).st = "returned"
    /\ Len(CallsOf("fetch_dropoff_info")) = 1
    /\ fetch_dropoff_info(CallsOf("fetch_dropoff_info")[1].resp).st = "returned"
    /\ Len(CallsOf("fetch_images")) = 1
    /\ fetch_images(CallsOf("fetch_images")[1].arg,
                    CallsOf("fetch_images")[1].resp).st = "returned"

\* the pronunciation call raised or returned nothing
PronunciationFailed ==
    /\ Len(CallsOf("ask_openai")) = 1
    /\ \/ ~CallsOf("ask_openai")[1].resp.ok
       \/ CallsOf("ask_openai")[1].resp.body = None

\* the row of the run over one row has been dealt with
RowOver == idx = 1 /\ pc \in {"loop", "done"}

\* C8: a failed pronunciation call does not cost the row: when the other
\* fetches succeed the row is emitted, its Pronunciation the empty string
\* and its other fields what the row and the fetches give.
C8_PronunciationNonFatal ==
    (RowOver /\ PronunciationFailed /\ FetchesReturned) =>
        /\ emitted = <<0>>
        /\ Len(new_rows) = 1
        /\ warnings = <<>>
        /\ new_rows[1].Pronunciation = <<>>
        /\ new_rows[1].ID = Get(old_rows[1], "OrderID")
        /\ new_rows[1].Name = Get(old_rows[1], "FullName")
        /\ new_rows[1].Phone = parse_phone(Get(old_rows[1], "StudentPhone"))
        /\ new_rows[1].Items =
                ItemsText(fetch_items(CallsOf("fetch_items")[1].resp).val)
        /\ new_rows[1].StorageUnit = <<"A1", " ", "NE">>
        /\ new_rows[1].ImageCt = 1
        /\ new_rows[1].Comments =
                generate_comments(old_rows[1],
                    IF Len(CallsOf("fetch_internal_notes")) = 1
                    THEN CallsOf("fetch_internal_notes")[1].resp
                    ELSE RequestFailed)
        /\ \A c \in OpenAIOutcomes :
                \A f \in DOMAIN new_rows[1] \ {"Pronunciation"} :
                    new_rows[1][f] =
                        NewRow(old_rows[1], Pronounce(c), new_rows[1].Items,
                               new_rows[1].StorageUnit,
                               CallsOf("fetch_images")[1].resp.body,
                               new_rows[1].Comments)[f]

\* the text-generation call raised and the row is in the output
C8_Witness ==
    /\ RowOver /\ FetchesReturned
    /\ ~CallsOf("ask_openai")[1].resp.ok
    /\ Len(new_rows) = 1 /\ new_rows[1].Pronunciation = <<>>
    /\ new_rows[1].Items = <<"2", "x ", "Box">>

\* C2 as claimed: a valid row whose order has item lines and complete
\* dropoff info but no images gives one output row, with the aggregated
\* items text, "name quadrant", Image Ct. 0 and empty Comments.
C2_RowWithoutImages ==
    ( /\ RowOver
      /\ NumericId(old_rows[1])
      /\ Len(CallsOf("fetch_items")) = 1
      /\ fetch_items(CallsOf("fetch_items")[1].resp).st = "returned"
      /\ Len(CallsOf("fetch_dropoff_info")) = 1
      /\ fetch_dropoff_info(CallsOf("fetch_dropoff_info")[1].resp).st = "returned"
      /\ Len(CallsOf("fetch_images")) = 1
      /\ CallsOf("fetch_images")[1].resp = Response(<<>>) ) =>
        /\ Len(new_rows) = 1
        /\ new_rows[1].Items = <<"2", "x ", "Box">>
        /\ new_rows[1].StorageUnit = <<"A1", " ", "NE">>
        /\ new_rows[1].ImageCt = 0
        /\ new_rows[1].Comments = <<>>


---------------------------------------------------------------------------
(* Failure of the order API's fetches within a row *)

\* the loop is between two rows (or over): calls holds the calls made for
\* row idx - 1
BetweenRows == pc \in {"loop", "done"} /\ idx >= 1

LastEmitted == Len(emitted) > 0 /\ emitted[Len(emitted)] = idx - 1

\* an answer to the items request that gives no item lines
ItemsFailure(resp) == ~resp.ok \/ resp.body = <<>>

\* an answer to the dropoff request that lacks the unit name or the quadrant
DropoffFailure(resp) ==
    \/ ~resp.ok
    \/ ~\E i \in 1..Len(resp.body) :
            resp.body[i][1] = "StorageUnitName" /\ Len(resp.body[i][2]) > 0
    \/ ~\E i \in 1..Len(resp.body) :
            resp.body[i][1] = "Quadrant" /\ Len(resp.body[i][2]) > 0

\* an answer to the images request that gives no image, or an image that
\* cannot be downloaded
ImagesFailure(resp) ==
    \/ ~resp.ok
    \/ resp.body = <<>>
    \/ \E i \in 1..Len(resp.body) :
            \E j \in 1..Len(resp.body[i]) :
                resp.body[i][j] = <<"Downloads", FALSE>>

\* the i-th call of the last row is an item, dropoff or image fetch that
\* failed
FetchFailedAt(i) ==
    \/ calls[i].api = "fetch_items" /\ ItemsFailure(calls[i].resp)
    \/ calls[i].api = "fetch_dropoff_info" /\ DropoffFailure(calls[i].resp)
    \/ calls[i].api = "fetch_images" /\ ImagesFailure(calls[i].resp)

OrderFetchFailed == \E i \in 1..Len(calls) : FetchFailedAt(i)

\* the internal-notes fetch of the last row failed
NotesFetchFailed ==
    \E i \in 1..Len(calls) :
        calls[i].api = "fetch_internal_notes" /\ ~calls[i].resp.ok

LastSkippedByFetch ==
    /\ ~LastEmitted
    /\ Len(warnings) > 0
    /\ warnings[Len(warnings)] = <<idx - 1, "StorageScholarsClientError">>
    /\ Len(new_rows) = Len(emitted)

\* C11 as claimed: a failure of any of the row's fetches, the
\* internal-notes fetch included, skips the row: no output row for it.
C11_AnyFetchFailureSkips ==
    (BetweenRows /\ (OrderFetchFailed \/ NotesFetchFailed)) =>
        LastSkippedByFetch

\* C11 amended: a failure of the item, dropoff or image fetch skips the
\* row, with a warning and no output row, and no later fetch is made for
\* it; an emitted row carries the fields of three fetches that returned;
\* a failure of the internal-notes fetch does not skip the row: the row
\* is emitted and its Comments are those of a row without notes.
C11_FetchFailurePolicy ==
    BetweenRows =>
        /\ OrderFetchFailed =>
                /\ LastSkippedByFetch
                /\ FetchFailedAt(Len(calls))
                /\ \A i \in 1..(Len(calls) - 1) : ~FetchFailedAt(i)
        /\ LastEmitted =>
                /\ ~OrderFetchFailed
                /\ Len(new_rows) = Len(emitted)
                /\ new_rows[Len(new_rows)].Items = <<"2", "x ", "Box">>
                /\ new_rows[Len(new_rows)].StorageUnit = <<"A1", " ", "NE">>
                /\ new_rows[Len(new_rows)].ImageCt = 1
        /\ NotesFetchFailed =>
                /\ LastEmitted
                /\ \A i \in 1..Len(new_rows[Len(new_rows)].Comments) :
                        new_rows[Len(new_rows)].Comments[i] # "Internal note by "
                /\ new_rows[Len(new_rows)].Comments =
                        generate_comments(old_rows[idx], Response(<<>>))

\* the first row was skipped for a failed fetch, the second one emitted
\* although its notes could not be fetched
C11_Witness ==
    /\ BetweenRows /\ idx = 2
    /\ warnings = << <<0, "StorageScholarsClientError">> >>
    /\ NotesFetchFailed /\ emitted = <<1>> /\ Len(new_rows) = 1


---------------------------------------------------------------------------
(* generate_comments applied to bounded rows and internal notes *)

\* a column of a row: present with value v, or absent when v is None
Column(key, v) == IF v = None THEN <<>> ELSE << <<key, v>> >>

CommentRows ==
    { Column("OrderID", o) \o Column("Cancelled", c) \o Column("Deleted", d)
        \o Column("DropoffPersonName", n) \o Column("DropoffPersonPhone", p)
        \o Column("Balance", b) :
        o \in {None, <<"1", "2", "3">>},
        c \in {None, <<"0">>, <<"1">>},
        d \in {None, <<"0">>, <<"1">>},
        n \in {None, <<"Ed">>},
        p \in {None, <<>>, <<"5", "5", "5">>,
                <<"5", "5", "5", "1", "2", "3", "4", "5", "6", "7">>},
        b \in {None, <<"0">>, <<"5", "0">>, <<"-", "5">>, <<"n", "/", "a">>} }

NoteOk ==
    << <<"Comment", <<"o", "k">>>>, <<"AddedByUserName", <<"amy">>>>,
       <<"CreatedDate", <<"2025-08-21">>>>, <<"Deleted", <<"0">>>> >>

NoteGone ==
    << <<"Comment", <<"n", "o", ".">>>>, <<"AddedByUserName", <<"bo">>>>,
       <<"CreatedDate", <<"2025-08-22">>>>, <<"Deleted", <<"1">>>> >>

CommentNotes ==
    {RequestFailed}
    \cup { Response(b) : b \in SeqsUpTo({NoteOk, NoteGone}, MaxNotes) }

InitComments ==
    /\ comment_data \in CommentRows
    /\ comment_notes \in CommentNotes
    /\ comments_out = NotCalled
    /\ IdlePhone /\ IdleItems /\ IdleNotes /\ IdleWrite /\ IdlePipe
    /\ IdleSuffix

GenerateComments ==
    /\ comments_out.st = "pending"
    /\ comments_out' = Returned(generate_comments(comment_data, comment_notes))
    /\ UNCHANGED <<comment_data, comment_notes, phoneVars, itemVars, noteVars,
                   writeVars, pipeVars, suffixVars>>

NextComments == GenerateComments

SpecComments == InitComments /\ [][NextComments]_vars

\* the row has the column with that value
HasValue(key, v) ==
    \E i \in 1..Len(comment_data) : comment_data[i] = <<key, v>>

\* the row has the column, with a non-empty value
Present(key) ==
    \E i \in 1..Len(comment_data) :
        comment_data[i][1] = key /\ Len(comment_data[i][2]) > 0

ValueOf(key) ==
    comment_data[CHOOSE i \in 1..Len(comment_data) : comment_data[i][1] = key][2]

\* the balance column spells a positive integer
OwesBalance ==
    /\ Present("Balance")
    /\ \A i \in 1..Len(ValueOf("Balance")) : ValueOf("Balance")[i] \in Digits
    /\ \E i \in 1..Len(ValueOf("Balance")) : ValueOf("Balance")[i] # "0"

\* the phone is shown formatted when it has ten digits, as None otherwise
ProxyLine ==
    <<"Call proxy ">> \o ValueOf("DropoffPersonName") \o <<" at ">>
        \o (IF Len(ValueOf("DropoffPersonPhone")) = 10
            THEN <<"(", "5", "5", "5", ")", " ", "1", "2", "3", "-",
                   "4", "5", "6", "7">>
            ELSE <<"None">>)

\* the rendered notes, in the order of the API's answer; none when the
\* request failed or was not made
NotesInOrder ==
    IF comment_notes.ok /\ (\E i \in 1..Len(comment_data) :
                                comment_data[i][1] = "OrderID")
    THEN [i \in 1..Len(comment_notes.body) |-> RenderNote(comment_notes.body[i])]
    ELSE <<>>

PartsBeforeNotes ==
    (IF HasValue("Cancelled", <<"1">>)
     THEN << <<"Order was canceled.">> >> ELSE <<>>)
    \o (IF HasValue("Deleted", <<"1">>)
        THEN << <<"Order was deleted.">> >> ELSE <<>>)
    \o (IF Present("DropoffPersonName") /\ Present("DropoffPersonPhone")
        THEN <<ProxyLine>> ELSE <<>>)
    \o (IF OwesBalance
        THEN << <<"Call customer to pay pending balance.">> >> ELSE <<>>)

\* C12: generate_comments never raises and returns, joined by single
\* spaces and in this order, "Order was canceled." iff Cancelled is "1",
\* "Order was deleted." iff Deleted is "1", the proxy line iff proxy name
\* and phone are both present, "Call customer to pay pending balance."
\* iff the balance parses to an integer > 0, then the internal notes in
\* the order fetched; when the notes fetch fails the result is exactly
\* the parts before the notes.
C12_CommentOrder ==
    comments_out.st # "pending" =>
        /\ comments_out.st = "returned"
        /\ comments_out.val = Join(<<" ">>, PartsBeforeNotes \o NotesInOrder)
        /\ ~comment_notes.ok =>
                comments_out.val = Join(<<" ">>, PartsBeforeNotes)

\* all four parts, and the notes fetch failed
C12_Witness ==
    /\ comments_out.st = "returned"
    /\ Present("OrderID") /\ ~comment_notes.ok
    /\ Len(PartsBeforeNotes) = 4
    /\ Len(ValueOf("DropoffPersonPhone")) = 10
    /\ comments_out.val =
            <<"Order was canceled.", " ", "Order was deleted.", " ">>
            \o ProxyLine
            \o <<" ", "Call customer to pay pending balance.">>


---------------------------------------------------------------------------
(* The three add_suffix_to_file_name applied to bounded names and suffixes *)

\* the part of a name before its extension, with n further "."
PathWithDots(stem, n) ==
    stem \o [i \in 1..(2 * n) |-> IF i % 2 = 1 THEN "." ELSE "v"]

SuffixPaths ==
    { PathWithDots(stem, n) :
        stem \in { <<"data\\order_ids_8-21-25">>, <<"orders">> },
        n \in 0..MaxDots }

SuffixArgs == { <<"_output">>, AttemptSuffix(1), <<".", "bak">> }

\* the name passed as file_name; a name without extension has sfx_ext None
SfxFileName ==
    IF sfx_ext = None THEN sfx_path ELSE sfx_path \o <<".">> \o sfx_ext

SuffixModules == {"utils.csv", "get_details", "get_items"}

InitSuffix ==
    /\ sfx_path \in SuffixPaths
    /\ sfx_ext \in {None, <<"csv">>, <<"txt">>}
    /\ sfx_ext = None => FirstDot(sfx_path) = 0
    /\ sfx_suffix \in SuffixArgs
    /\ suffixed = [m \in SuffixModules |-> NotCalled]
    /\ IdlePhone /\ IdleItems /\ IdleNotes /\ IdleWrite /\ IdlePipe
    /\ IdleComments

AddSuffixCsv ==
    /\ suffixed["utils.csv"].st = "pending"
    /\ suffixed' = [suffixed EXCEPT !["utils.csv"] =
            Returned(add_suffix_to_file_name(SfxFileName, sfx_suffix))]
    /\ UNCHANGED <<sfx_path, sfx_ext, sfx_suffix, phoneVars, itemVars,
                   noteVars, writeVars, pipeVars, commentVars>>

AddSuffixGetDetails ==
    /\ suffixed["get_details"].st = "pending"
    /\ suffixed' = [suffixed EXCEPT !["get_details"] =
            get_details_add_suffix_to_file_name(SfxFileName, sfx_suffix)]
    /\ UNCHANGED <<sfx_path, sfx_ext, sfx_suffix, phoneVars, itemVars,
                   noteVars, writeVars, pipeVars, commentVars>>

AddSuffixGetItems ==
    /\ suffixed["get_items"].st = "pending"
    /\ suffixed' = [suffixed EXCEPT !["get_items"] =
            get_items_add_suffix_to_file_name(SfxFileName, sfx_suffix)]
    /\ UNCHANGED <<sfx_path, sfx_ext, sfx_suffix, phoneVars, itemVars,
                   noteVars, writeVars, pipeVars, commentVars>>

NextSuffix ==
    \/ AddSuffixCsv
    \/ AddSuffixGetDetails
    \/ AddSuffixGetItems

SpecSuffix == InitSuffix /\ [][NextSuffix]_vars

\* what the call of module m returned is path + suffix + "." + ext
SuffixedBeforeExtension(m) ==
    /\ suffixed[m].st = "returned"
    /\ suffixed[m].val = sfx_path \o sfx_suffix \o <<".">> \o sfx_ext

\* C13 as claimed: for every name path.ext, further "." in the path
\* included, and every suffix, each add_suffix_to_file_name returns
\* path + suffix + "." + ext, whatever the name is; with "_output" and
\* the input file name it gives the default output file name.
C13_SuffixBeforeExtension ==
    \A m \in SuffixModules :
        (sfx_ext # None /\ suffixed[m].st # "pending") =>
            SuffixedBeforeExtension(m)

\* utils/csv.py alone: its add_suffix_to_file_name does as C13 says
C13_UtilsCsvOnly ==
    (sfx_ext # None /\ suffixed["utils.csv"].st # "pending") =>
        SuffixedBeforeExtension("utils.csv")

\* the three agree on the default output name of the input file
C13_DefaultOutputName ==
    \A m \in SuffixModules :
        ( /\ SfxFileName = ORDER_ID_FILE_NAME
          /\ sfx_suffix = <<"_output">>
          /\ suffixed[m].st # "pending" ) =>
            suffixed[m] = Returned(<<"data\\order_ids_8-21-25", "_output",
                                     ".", "csv">>)


---------------------------------------------------------------------------
(* The order identifiers of one row *)

\* the text spells the integer n in decimal
Denotes(text, n) ==
    /\ text # None
    /\ Len(text) > 0
    /\ \A i \in 1..Len(text) : text[i] \in Digits
    /\ Canonical(text) = Str(n)

\* C14 as claimed: for an emitted row, the id passed to the item, dropoff
\* and image fetches, the id passed to the internal-notes fetch and the
\* row's ID field denote the same order, also when the id was taken from
\* the first column.
C14_SameOrderEverywhere ==
    (RowOver /\ emitted = <<0>>) =>
        \E n \in 0..999 :
            /\ \A i \in 1..Len(calls) :
                    /\ calls[i].api \in {"fetch_items", "fetch_dropoff_info",
                                         "fetch_images"} => calls[i].arg = n
                    /\ calls[i].api = "fetch_internal_notes" =>
                            Denotes(calls[i].arg, n)
            /\ Len(CallsOf("fetch_items")) = 1
            /\ Denotes(new_rows[1].ID, n)

\* the same for the rows whose OrderID column holds the id: there the
\* three identifiers agree
C14_NamedColumnOnly ==
    (RowOver /\ emitted = <<0>> /\ Truthy(Get(old_rows[1], "OrderID"))) =>
        \E n \in 0..999 :
            /\ \A i \in 1..Len(calls) :
                    /\ calls[i].api \in {"fetch_items", "fetch_dropoff_info",
                                         "fetch_images"} => calls[i].arg = n
                    /\ calls[i].api = "fetch_internal_notes" =>
                            Denotes(calls[i].arg, n)
            /\ Len(CallsOf("fetch_items")) = 1
            /\ Len(CallsOf("fetch_internal_notes")) = 1
            /\ Denotes(new_rows[1].ID, n)


---------------------------------------------------------------------------
(* write_to_csv of scripts/get_details.py, called by its main with the    *)
(* rows of get_updated_rows and the output name derived from the input's  *)

InitWriteGetDetails ==
    /\ file_name = get_details_add_suffix_to_file_name(
                        ORDER_IDS_FILE_NAME, <<"_output">>).val
    /\ rows \in {<<>>, <<OneRow>>}
    /\ attempt = 0
    /\ w_pc = "call"
    /\ w_plan \in [1..(MaxLocked + 1) -> WriteOutcomes]
    /\ opened = <<>>
    /\ w_result = NotCalled
    /\ IdlePhone /\ IdleItems /\ IdleNotes /\ IdlePipe /\ IdleComments
    /\ IdleSuffix

\* entry: attempt = 0 and the loop, whatever rows is
GetDetailsWriteEnter ==
    /\ w_pc = "call"
    /\ attempt' = 0
    /\ w_pc' = "try"
    /\ UNCHANGED <<file_name, rows, w_plan, opened, w_result>>
    /\ UNCHANGED notWrite

\* one iteration of the while loop: open(), which creates or truncates
\* the file when it succeeds, then rows[0], an IndexError for empty rows
GetDetailsWriteAttempt ==
    /\ w_pc = "try"
    /\ Len(opened) < Len(w_plan)
    /\ LET outcome == w_plan[Len(opened) + 1]
       IN  /\ opened' = Append(opened, file_name)
           /\ IF outcome = "ok" /\ Len(rows) > 0
              THEN /\ w_pc' = "done"
                   /\ w_result' = Returned(file_name)
                   /\ UNCHANGED <<file_name, attempt>>
              ELSE IF outcome = "ok"
              THEN /\ w_pc' = "raised"
                   /\ w_result' = [st |-> "raised", val |-> <<"IndexError">>]
                   /\ UNCHANGED <<file_name, attempt>>
              ELSE IF Retries(outcome)
              THEN /\ attempt' = attempt + 1
                   /\ file_name' = get_details_add_suffix_to_file_name(
                                        file_name, AttemptSuffix(attempt + 1)).val
                   /\ UNCHANGED <<w_pc, w_result>>
              ELSE /\ w_pc' = "raised"
                   /\ w_result' = [st |-> "raised", val |-> <<outcome>>]
                   /\ UNCHANGED <<file_name, attempt>>
    /\ UNCHANGED <<rows, w_plan>>
    /\ UNCHANGED notWrite

NextWriteGetDetails ==
    \/ GetDetailsWriteEnter
    \/ GetDetailsWriteAttempt

SpecWriteGetDetails == InitWriteGetDetails /\ [][NextWriteGetDetails]_vars

\* C15 as claimed: called with an empty list of rows, write_to_csv fails
\* at once: it raises without having opened (created, truncated) any file
\* and without a turn of the retry loop.
C15_EmptyRowsNothingOpened ==
    (Len(rows) = 0 /\ w_pc # "call") =>
        /\ w_pc = "raised"
        /\ w_result.st = "raised"
        /\ opened = <<>>
        /\ attempt = 0

=============================================================================
